---------------------------- MODULE Spec2Model ----------------------------
(***************************************************************************)
(* Sports Hub API (src/main.py): the request handlers over the static      *)
(* catalogs and over the document store adapter (database.py:              *)
(* create_document, get_documents, db).                                    *)
(*                                                                         *)
(* Python values: a dict is a function over its keys, a list a sequence,   *)
(* None the value None below.  A float literal of the catalog is kept as   *)
(* the string of its literal.  The status glyphs of the diagnostics        *)
(* strings are written in ASCII: "[ok]", "[x]", "[!]".                     *)
(***************************************************************************)
EXTENDS Integers, Sequences, FiniteSets, TLC

VARIABLES db, store, resp, log

vars == <<db, store, resp, log>>

-----------------------------------------------------------------------------
(* Bounds of the model *)

\* successful creates in one run (all collections together)
MaxCreates == 2

\* longest list of collection names the database reports to the probe
MaxCollections == 12

-----------------------------------------------------------------------------
(* Python helpers *)

None == "<None>"

\* truthiness of an Optional[str]: None and "" are falsy
Truthy(s) == s # None /\ s # ""

Range(s) == {s[i] : i \in DOMAIN s}

Slice_OneTooMany(s, n) == IF Len(s) <= n + 1 THEN s ELSE SubSeq(s, 1, n + 1)

\* s[:n] of a str or a list
Slice(s, n) == IF Len(s) <= n THEN s ELSE SubSeq(s, 1, n)

\* d.get(k, default)
Get(d, k, default) == IF k \in DOMAIN d THEN d[k] ELSE default

\* {**a, **b}: the keys of b win
Merge(a, b) == [k \in DOMAIN a \cup DOMAIN b |-> IF k \in DOMAIN b THEN b[k] ELSE a[k]]

\* d with key k removed
Without(d, k) == [x \in DOMAIN d \ {k} |-> d[x]]

\* the store's identifier and its str()
ObjectId(n) == [oid |-> n]

str(o) == "oid" \o ToString(o.oid)

-----------------------------------------------------------------------------
(* Static catalogs *)

SAMPLE_OFFERS ==
  << [id |-> "o1", image |-> "https://images.unsplash.com/photo-1603297637585-4eb3b0c6c3b1",
      title |-> "Weekend Smash 30% OFF", description |-> "On all football turfs"],
     [id |-> "o2", image |-> "https://images.unsplash.com/photo-1571907480495-2416503cf842",
      title |-> "Studio Saver 20%", description |-> "Dance & Zumba"],
     [id |-> "o3", image |-> "https://images.unsplash.com/photo-1556227701-787edf1a6e47",
      title |-> "Recovery Combo", description |-> "Ice bath + Massage"] >>

SAMPLE_VENUES ==
  << [id |-> "v1", image |-> "https://images.unsplash.com/photo-1517649763962-0c623066013b",
      name |-> "City Arena", type |-> "court",
      tags |-> <<"football", "basketball">>, address |-> "Downtown",
      rating |-> "4.8", distance_km |-> "1.1", price_per_30min |-> 15],
     [id |-> "v2", image |-> "https://images.unsplash.com/photo-1483728642387-6c3bdd6c93e5",
      name |-> "Hoops Central", type |-> "court",
      tags |-> <<"basketball">>, address |-> "West End",
      rating |-> "4.6", distance_km |-> "2.0", price_per_30min |-> 12],
     [id |-> "v3", image |-> "https://images.unsplash.com/photo-1515169067865-5387ec356754",
      name |-> "Groove Studio", type |-> "studio",
      tags |-> <<"dance", "zumba">>, address |-> "Midtown",
      rating |-> "4.7", distance_km |-> "0.9", price_per_30min |-> 10],
     [id |-> "v4", image |-> "https://images.unsplash.com/photo-1519824145371-296894a0daa9",
      name |-> "Wellness Hub", type |-> "recovery",
      tags |-> <<"ice bath", "massage">>, address |-> "Riverside",
      rating |-> "4.9", distance_km |-> "1.5", price_per_30min |-> 18],
     [id |-> "v5", image |-> "https://images.unsplash.com/photo-1519315901367-f34ff9154487",
      name |-> "Blue Pools", type |-> "recovery",
      tags |-> <<"swimming">>, address |-> "Uptown",
      rating |-> "4.5", distance_km |-> "2.2", price_per_30min |-> 8] >>

SAMPLE_EVENTS ==
  << [id |-> "e1", image |-> "https://images.unsplash.com/photo-1517649763962-0c623066013b",
      title |-> "Local League Finals", category |-> "sports",
      date |-> "2025-11-30", price |-> 5],
     [id |-> "e2", image |-> "https://images.unsplash.com/photo-1549576490-b0b4831ef60a",
      title |-> "Zumba Marathon", category |-> "dance",
      date |-> "2025-12-05", price |-> 12],
     [id |-> "e3", image |-> "https://images.unsplash.com/photo-1554284126-aa88f22d8b74",
      title |-> "Strength Workshop", category |-> "workshop",
      date |-> "2025-12-10", price |-> 20] >>

SAMPLE_ACTIVITIES ==
  << [id |-> "a1", type |-> "booked", text |-> "You booked City Arena - Football"],
     [id |-> "a2", type |-> "joined", text |-> "You joined 3v3 Basketball"],
     [id |-> "a3", type |-> "hosted", text |-> "You hosted Zumba Jam"] >>

-----------------------------------------------------------------------------
(* Request models: the validated payload of a request that carries every   *)
(* required field.  Fields the model does not declare are dropped; omitted *)
(* optional fields take the declared default.  The required fields are     *)
(* listed in declaration order, the order validation reports them in.      *)
(* Request bodies here hold values of the declared types only.             *)

\* the 422 detail: one error record per missing required field
ValidationErrors(required, raw) ==
  LET missing == SelectSeq(required, LAMBDA f : f \notin DOMAIN raw)
  IN  [i \in DOMAIN missing |->
         [type |-> "missing", loc |-> <<"body", missing[i]>>,
          msg |-> "Field required", input |-> raw]]

BookingRequired ==
  <<"venue_id", "venue_name", "venue_type", "date", "start_time", "end_time",
    "slots", "total_amount">>

BookingIn_DropsUserId(raw) ==
       [user_id |-> None,
        venue_id |-> raw.venue_id,
        venue_name |-> raw.venue_name,
        venue_type |-> raw.venue_type,
        date |-> raw.date,
        start_time |-> raw.start_time,
        end_time |-> raw.end_time,
        slots |-> raw.slots,
        total_amount |-> raw.total_amount,
        share_to_social |-> Get(raw, "share_to_social", FALSE)]

BookingIn(raw) ==
       [user_id |-> Get(raw, "user_id", None),
        venue_id |-> raw.venue_id,
        venue_name |-> raw.venue_name,
        venue_type |-> raw.venue_type,
        date |-> raw.date,
        start_time |-> raw.start_time,
        end_time |-> raw.end_time,
        slots |-> raw.slots,
        total_amount |-> raw.total_amount,
        share_to_social |-> Get(raw, "share_to_social", FALSE)]

GameRequired == <<"title", "sport">>

GameIn_NoDefaults(raw) ==
       [title |-> raw.title,
        sport |-> raw.sport,
        visibility |-> Get(raw, "visibility", None),
        host_user_id |-> Get(raw, "host_user_id", None),
        max_players |-> Get(raw, "max_players", 0),
        description |-> Get(raw, "description", None)]

GameIn(raw) ==
       [title |-> raw.title,
        sport |-> raw.sport,
        visibility |-> Get(raw, "visibility", "public"),
        host_user_id |-> Get(raw, "host_user_id", None),
        max_players |-> Get(raw, "max_players", 10),
        description |-> Get(raw, "description", None)]

PostRequired == <<"content">>

PostIn(raw) ==
       [user_id |-> Get(raw, "user_id", None),
        content |-> raw.content,
        image |-> Get(raw, "image", None)]

-----------------------------------------------------------------------------
(* Document store adapter (database.py).  store is                         *)
(* [colls: collection name -> sequence of documents, nextId: the next      *)
(* identifier the store assigns]; db is the module's connection handle,     *)
(* [connected, name]: "db is None" is ~db.connected.                        *)
(* fault is what the store does with this one call: NoFault, or the        *)
(* message of the exception it raises.                                     *)

NoFault == "<NoFault>"

Collections == {"booking", "game", "socialpost"}

DbUnavailable == "Database not available"

\* insert one document with the given fields; the store assigns _id
db_is_None(d) == ~d.connected

create_document(d, st, collection_name, data, fault) ==
  IF db_is_None(d) THEN [ok |-> FALSE, error |-> DbUnavailable, store |-> st]
  ELSE IF fault # NoFault THEN [ok |-> FALSE, error |-> fault, store |-> st]
  ELSE [ok |-> TRUE,
        id |-> str(ObjectId(st.nextId)),
        store |-> [colls |-> [st.colls EXCEPT ![collection_name] =
                                Append(@, ("_id" :> ObjectId(st.nextId)) @@ data)],
                   nextId |-> st.nextId + 1]]

\* every key/value pair of the filter is in the document
Matches(doc, filter_dict) ==
  \A k \in DOMAIN filter_dict : k \in DOMAIN doc /\ doc[k] = filter_dict[k]

\* the documents of the collection matching the filter, in insertion order.
\* On an unreachable store the adapter either fails or, as it is permitted
\* to, answers with the empty sequence: degrade says which.
get_documents(d, st, collection_name, filter_dict, fault, degrade) ==
  IF db_is_None(d)
  THEN IF degrade THEN [ok |-> TRUE, docs |-> << >>]
       ELSE [ok |-> FALSE, error |-> DbUnavailable]
  ELSE IF fault # NoFault THEN [ok |-> FALSE, error |-> fault]
  ELSE [ok |-> TRUE,
        docs |-> SelectSeq(st.colls[collection_name],
                           LAMBDA doc : Matches(doc, filter_dict))]

-----------------------------------------------------------------------------
(* Handlers.  Each yields the HTTP status, the response body and the store *)
(* as the call leaves it.                                                  *)

\* for d in docs: if "_id" in d: d["id"] = str(d.pop("_id"))
NormalizeId(doc) ==
  IF "_id" \in DOMAIN doc
  THEN Merge(Without(doc, "_id"), [id |-> str(doc["_id"])])
  ELSE doc

NormalizeIds(docs) == [i \in DOMAIN docs |-> NormalizeId(docs[i])]

root == [message |-> "Sports Hub API running"]

get_offers == SAMPLE_OFFERS

get_venues_TagOverridesType(vtype, tag) ==
  LET items1 == IF Truthy(vtype)
                THEN SelectSeq(SAMPLE_VENUES, LAMBDA v : v.type = vtype)
                ELSE SAMPLE_VENUES
  IN  IF Truthy(tag)
      THEN SelectSeq(SAMPLE_VENUES, LAMBDA v : tag \in Range(Get(v, "tags", << >>)))
      ELSE items1

get_venues(vtype, tag) ==
  LET items1 == IF Truthy(vtype)
                THEN SelectSeq(SAMPLE_VENUES, LAMBDA v : v.type = vtype)
                ELSE SAMPLE_VENUES
  IN  IF Truthy(tag)
      THEN SelectSeq(items1, LAMBDA v : tag \in Range(Get(v, "tags", << >>)))
      ELSE items1

get_events(category) ==
  IF Truthy(category)
  THEN SelectSeq(SAMPLE_EVENTS, LAMBDA e : e.category = category)
  ELSE SAMPLE_EVENTS

recent_activities == SAMPLE_ACTIVITIES

RecoLimit == 3

recommend_recovery_Unfiltered ==
  [title |-> "Top picks to recover", items |-> Slice(SAMPLE_VENUES, RecoLimit)]

recommend_recovery ==
  [title |-> "Top picks to recover",
   items |-> Slice(SelectSeq(SAMPLE_VENUES, LAMBDA v : v.type = "recovery"), RecoLimit)]

\* HTTPException(status_code=500, ...)
HTTP_SERVER_ERROR == 500

create_booking(d, st, payload, fault) ==
  LET r == create_document(d, st, "booking", payload, fault)
  IN  IF r.ok
      THEN [status |-> 200, body |-> Merge([id |-> r.id], payload), store |-> r.store]
      ELSE [status |-> HTTP_SERVER_ERROR, body |-> [detail |-> r.error], store |-> r.store]

list_bookings(d, st, user_id, fault, degrade) ==
  LET filt == IF Truthy(user_id) THEN [user_id |-> user_id] ELSE << >>
      r    == get_documents(d, st, "booking", filt, fault, degrade)
  IN  IF r.ok
      THEN [status |-> 200, body |-> NormalizeIds(r.docs), store |-> st]
      ELSE [status |-> HTTP_SERVER_ERROR, body |-> [detail |-> r.error], store |-> st]

list_games_Surfaces(d, st, fault, degrade) ==
  LET r == get_documents(d, st, "game", << >>, fault, degrade)
  IN  IF r.ok
      THEN [status |-> 200, body |-> NormalizeIds(r.docs), store |-> st]
      ELSE [status |-> HTTP_SERVER_ERROR, body |-> [detail |-> r.error], store |-> st]

list_games(d, st, fault, degrade) ==
  LET r == get_documents(d, st, "game", << >>, fault, degrade)
  IN  IF r.ok
      THEN [status |-> 200, body |-> NormalizeIds(r.docs), store |-> st]
      ELSE [status |-> 200, body |-> << >>, store |-> st]

create_game(d, st, payload, fault) ==
  LET r == create_document(d, st, "game", payload, fault)
  IN  IF r.ok
      THEN [status |-> 200, body |-> Merge([id |-> r.id], payload), store |-> r.store]
      ELSE [status |-> HTTP_SERVER_ERROR, body |-> [detail |-> r.error], store |-> r.store]

\* the ids are normalised in the stored documents themselves
list_posts_PopsInStore(d, st, fault, degrade) ==
  LET r == get_documents(d, st, "socialpost", << >>, fault, degrade)
  IN  IF r.ok
      THEN [status |-> 200, body |-> NormalizeIds(r.docs),
            store |-> [st EXCEPT !.colls["socialpost"] = NormalizeIds(@)]]
      ELSE [status |-> 200, body |-> << >>, store |-> st]

list_posts(d, st, fault, degrade) ==
  LET r == get_documents(d, st, "socialpost", << >>, fault, degrade)
  IN  IF r.ok
      THEN [status |-> 200, body |-> NormalizeIds(r.docs), store |-> st]
      ELSE [status |-> 200, body |-> << >>, store |-> st]

create_post_IgnoresError(d, st, payload, fault) ==
  LET r == create_document(d, st, "socialpost", payload, fault)
  IN  IF r.ok
      THEN [status |-> 200, body |-> Merge([id |-> r.id], payload), store |-> r.store]
      ELSE [status |-> 200, body |-> Merge([id |-> None], payload), store |-> r.store]

create_post(d, st, payload, fault) ==
  LET r == create_document(d, st, "socialpost", payload, fault)
  IN  IF r.ok
      THEN [status |-> 200, body |-> Merge([id |-> r.id], payload), store |-> r.store]
      ELSE [status |-> HTTP_SERVER_ERROR, body |-> [detail |-> r.error], store |-> r.store]

\* collections[:10]
CollectionsLimit == 10

\* str(e)[:50]
ErrorTextLimit == 50

\* database_url: os.getenv("DATABASE_URL"); name_fault: what reading db.name
\* does; list_result: what db.list_collection_names() does
test_database(d, database_url, name_fault, list_result) ==
  LET response == [backend |-> "[ok] Running",
                   database |-> "[x] Not Available",
                   database_url |-> None,
                   database_name |-> None,
                   connection_status |-> "Not Connected",
                   collections |-> << >>]
      r1 == [response EXCEPT
               !.database = "[ok] Connected & Working",
               !.database_url = IF Truthy(database_url) THEN "[ok] Set" ELSE "[x] Not Set"]
      r2 == [r1 EXCEPT !.database_name = d.name, !.connection_status = "Connected"]
  IN  IF db_is_None(d) THEN response
      ELSE IF name_fault # NoFault
      THEN [r1 EXCEPT !.database = "[x] Error: " \o Slice(name_fault, ErrorTextLimit)]
      ELSE IF list_result.ok
      THEN [r2 EXCEPT !.collections = Slice(list_result.names, CollectionsLimit)]
      ELSE [r2 EXCEPT !.database =
              "[!] Connected but Error: " \o Slice(list_result.error, ErrorTextLimit)]

-----------------------------------------------------------------------------
(* Requests and store behaviours the model draws from *)

BaseBooking ==
  [venue_id |-> "v1", venue_name |-> "City Arena", venue_type |-> "court",
   date |-> "2025-12-01", start_time |-> "10:00", end_time |-> "11:00",
   slots |-> 2, total_amount |-> 60]

BookingRequests ==
  { BaseBooking,
    Merge(BaseBooking, [user_id |-> "u1"]),
    Merge(BaseBooking, [user_id |-> "u1", venue_id |-> "v4", venue_name |-> "Wellness Hub",
                        venue_type |-> "recovery", share_to_social |-> TRUE,
                        status |-> "completed"]),
    Merge(BaseBooking, [user_id |-> ""]),
    Without(BaseBooking, "venue_id") }

UserIds == {None, "", "u1", "u2"}

GameRequests ==
  { [title |-> "3v3 Pickup", sport |-> "basketball"],
    [title |-> "Sunday League", sport |-> "football", visibility |-> "private",
     host_user_id |-> "u1", max_players |-> 22, description |-> "bring boots"],
    [title |-> "No sport"],
    [description |-> "nothing required"] }

PostRequests ==
  { [content |-> "Great game today"],
    [user_id |-> "u1", content |-> "New court opened", image |-> "court.png"],
    [user_id |-> "u2"] }

WriteFaults == {NoFault, "E11000 duplicate key error"}

ReadFaults == {NoFault, "connection reset by peer"}

Ten == "0123456789"

\* an exception text of 64 characters
LongMessage == Ten \o Ten \o Ten \o Ten \o Ten \o "XYZ" \o Ten \o "Z"

\* exception texts of 20, 50, 51 and 64 characters
ProbeMessages ==
  { Ten \o Ten,
    Ten \o Ten \o Ten \o Ten \o Ten,
    Ten \o Ten \o Ten \o Ten \o Ten \o "X",
    LongMessage }

CollectionNames == [i \in 1..MaxCollections |-> "c" \o ToString(i)]

ListResults ==
  {[ok |-> TRUE, names |-> SubSeq(CollectionNames, 1, n), error |-> NoFault] :
      n \in {0} \cup (CollectionsLimit - 1)..MaxCollections}
  \cup {[ok |-> FALSE, names |-> << >>, error |-> m] : m \in ProbeMessages}

VenueTypes == {None, "", "court", "recovery", "pool"}

VenueTags == {None, "", "basketball", "swimming", "yoga"}

EventCategories == {None, "", "dance", "other"}

DbHandles == {[connected |-> FALSE, name |-> None], [connected |-> TRUE, name |-> "sportshub"]}

-----------------------------------------------------------------------------
(* The state machine.  resp is the last response with the request that     *)
(* produced it; log is the history of successful creates, each with the    *)
(* identifiers its collection held before the call.                        *)

Ids(docs) == {str(docs[i]["_id"]) : i \in {j \in DOMAIN docs : "_id" \in DOMAIN docs[j]}}

Init ==
  /\ db \in DbHandles
  /\ store = [colls |-> [c \in Collections |-> << >>], nextId |-> 1]
  /\ resp = [op |-> "none", req |-> << >>, fault |-> NoFault, status |-> 200, body |-> << >>]
  /\ log = << >>

Respond(op, req, fault, h) ==
  /\ resp' = [op |-> op, req |-> req, fault |-> fault, status |-> h.status, body |-> h.body]
  /\ store' = h.store

\* a request the framework rejects before the handler runs
Rejected(op, req, required) ==
  /\ resp' = [op |-> op, req |-> req, fault |-> NoFault, status |-> 422,
              body |-> [detail |-> ValidationErrors(required, req)]]
  /\ UNCHANGED <<store, log>>

Created(op, collection, raw, fault, h) ==
  /\ h.store # store => store.nextId <= MaxCreates
  /\ Respond(op, raw, fault, h)
  /\ log' = IF h.status = 200
            THEN Append(log, [collection |-> collection, id |-> h.body.id, raw |-> raw,
                              before |-> Ids(store.colls[collection])])
            ELSE log

Read(op, req, fault, h) ==
  /\ Respond(op, req, fault, h)
  /\ UNCHANGED log

Static(op, req, body) ==
  /\ resp' = [op |-> op, req |-> req, fault |-> NoFault, status |-> 200, body |-> body]
  /\ UNCHANGED <<store, log>>

Root == Static("root", << >>, root) /\ UNCHANGED db

GetOffers == Static("get_offers", << >>, get_offers) /\ UNCHANGED db

GetVenues ==
  /\ \E vtype \in VenueTypes, tag \in VenueTags :
        Static("get_venues", [vtype |-> vtype, tag |-> tag], get_venues(vtype, tag))
  /\ UNCHANGED db

GetEvents ==
  /\ \E category \in EventCategories :
        Static("get_events", [category |-> category], get_events(category))
  /\ UNCHANGED db

RecentActivities == Static("recent_activities", << >>, recent_activities) /\ UNCHANGED db

RecommendRecovery == Static("recommend_recovery", << >>, recommend_recovery) /\ UNCHANGED db

CreateBooking ==
  /\ \E raw \in BookingRequests, fault \in WriteFaults :
        IF Range(BookingRequired) \subseteq DOMAIN raw
        THEN Created("create_booking", "booking", raw, fault,
                     create_booking(db, store, BookingIn(raw), fault))
        ELSE Rejected("create_booking", raw, BookingRequired)
  /\ UNCHANGED db

ListBookings ==
  /\ \E user_id \in UserIds, fault \in ReadFaults, degrade \in BOOLEAN :
        Read("list_bookings", [user_id |-> user_id], fault,
             list_bookings(db, store, user_id, fault, degrade))
  /\ UNCHANGED db

CreateGame ==
  /\ \E raw \in GameRequests, fault \in WriteFaults :
        IF Range(GameRequired) \subseteq DOMAIN raw
        THEN Created("create_game", "game", raw, fault,
                     create_game(db, store, GameIn(raw), fault))
        ELSE Rejected("create_game", raw, GameRequired)
  /\ UNCHANGED db

ListGames ==
  /\ \E fault \in ReadFaults, degrade \in BOOLEAN :
        Read("list_games", << >>, fault, list_games(db, store, fault, degrade))
  /\ UNCHANGED db

CreatePost ==
  /\ \E raw \in PostRequests, fault \in WriteFaults :
        IF Range(PostRequired) \subseteq DOMAIN raw
        THEN Created("create_post", "socialpost", raw, fault,
                     create_post(db, store, PostIn(raw), fault))
        ELSE Rejected("create_post", raw, PostRequired)
  /\ UNCHANGED db

ListPosts ==
  /\ \E fault \in ReadFaults, degrade \in BOOLEAN :
        Read("list_posts", << >>, fault, list_posts(db, store, fault, degrade))
  /\ UNCHANGED db

TestDatabase ==
  /\ \E database_url \in {None, "mongodb://localhost:27017"},
         name_fault \in {NoFault, "database handle closed", LongMessage},
         list_result \in ListResults :
        /\ resp' = [op |-> "test_database",
                    req |-> [database_url |-> database_url, name_fault |-> name_fault,
                             list_result |-> list_result],
                    fault |-> NoFault, status |-> 200,
                    body |-> test_database(db, database_url, name_fault, list_result)]
        /\ UNCHANGED <<store, log>>
  /\ UNCHANGED db

Next ==
  \/ Root
  \/ GetOffers
  \/ GetVenues
  \/ GetEvents
  \/ RecentActivities
  \/ RecommendRecovery
  \/ CreateBooking
  \/ ListBookings
  \/ CreateGame
  \/ ListGames
  \/ CreatePost
  \/ ListPosts
  \/ TestDatabase

Spec == Init /\ [][Next]_vars

-----------------------------------------------------------------------------
(* Properties *)

Min(a, b) == IF a <= b THEN a ELSE b

\* the store could not serve the call behind the last response
StoreFailed == db_is_None(db) \/ resp.fault # NoFault

\* the fields a booking request may carry (BookingIn)
BookingFields == Range(BookingRequired) \cup {"user_id", "share_to_social"}

\* C1: after a successful create_booking with a user_id, every list_bookings
\* with that user_id that the store serves returns a record with the id the
\* create returned and with every submitted field at its submitted value;
\* and the id the create returned was the id of no booking stored before it.
C1_CreateThenList ==
  /\ \A i \in DOMAIN log :
        log[i].collection = "booking" => log[i].id \notin log[i].before
  /\ (resp.op = "list_bookings" /\ resp.status = 200) =>
        \A i \in DOMAIN log :
          ( /\ log[i].collection = "booking"
            /\ "user_id" \in DOMAIN log[i].raw
            /\ log[i].raw.user_id = resp.req.user_id )
          => \E j \in DOMAIN resp.body :
               /\ resp.body[j].id = log[i].id
               /\ \A k \in DOMAIN log[i].raw \cap BookingFields :
                     resp.body[j][k] = log[i].raw[k]

\* two bookings stored, one of them u1's, and list_bookings("u1") answered
C1_Witness ==
  /\ resp.op = "list_bookings" /\ resp.status = 200 /\ resp.req.user_id = "u1"
  /\ Len(store.colls["booking"]) = 2
  /\ Len(resp.body) = 1
  /\ \E i \in DOMAIN log :
        /\ log[i].id = resp.body[1].id
        /\ "user_id" \in DOMAIN log[i].raw /\ log[i].raw.user_id = "u1"

\* C2: when the store is unreachable (no connection, or the read raises),
\* list_bookings answers HTTP 500 with the error message, with or without
\* a user_id filter, and never a list.
C2_ListBookingsSurfacesError ==
  (resp.op = "list_bookings" /\ StoreFailed) =>
     /\ resp.status = 500
     /\ resp.body = [detail |-> IF db_is_None(db) THEN DbUnavailable ELSE resp.fault]

\* C3: list_games and list_posts always answer 200, and when the store is
\* unreachable or the read raises the body is the empty sequence.
C3_ListGamesPostsSwallow ==
  resp.op \in {"list_games", "list_posts"} =>
     /\ resp.status = 200
     /\ StoreFailed => resp.body = << >>

\* a read that raises although the collection holds a document
C3_Witness ==
  /\ resp.op = "list_games" /\ resp.fault # NoFault /\ ~db_is_None(db)
  /\ Len(store.colls["game"]) > 0
  /\ resp.status = 200 /\ resp.body = << >>

CreateOpOf(c) ==
  CASE c = "booking" -> "create_booking"
    [] c = "game" -> "create_game"
    [] c = "socialpost" -> "create_post"

\* C4: every step keeps every stored document in place and unchanged; a
\* collection grows only by one document, and exactly in the step of a
\* successful create on it.
C4_CreateOnly ==
  [][\A c \in Collections :
       LET old == store.colls[c]
           new == store'.colls[c]
       IN  /\ Len(new) \in {Len(old), Len(old) + 1}
           /\ \A i \in DOMAIN old : new[i] = old[i]
           /\ Len(new) = Len(old) + 1 =>
                 resp'.op = CreateOpOf(c) /\ resp'.status = 200]_vars

\* both posts created earlier are still stored after a list served them
C4_Witness ==
  /\ resp.op = "list_posts" /\ resp.status = 200 /\ Len(resp.body) = 2
  /\ Len(store.colls["socialpost"]) = 2
  /\ \A i \in 1..2 : NormalizeId(store.colls["socialpost"][i]) = resp.body[i]

\* C5: when the store cannot perform the write, create_booking, create_game
\* and create_post answer HTTP 500 whose detail is the error message, and
\* no record with an id.
C5_CreateSurfacesError ==
  ( /\ resp.op \in {"create_booking", "create_game", "create_post"}
    /\ resp.status # 422
    /\ StoreFailed )
  => /\ resp.status = 500
     /\ "id" \notin DOMAIN resp.body
     /\ resp.body = [detail |-> IF db_is_None(db) THEN DbUnavailable ELSE resp.fault]

C5_Witness ==
  /\ resp.op = "create_post" /\ ~db_is_None(db) /\ resp.fault # NoFault
  /\ resp.status = 500 /\ resp.body.detail = resp.fault

\* the successful creates on a collection, oldest first
CreatedIn(c) == SelectSeq(log, LAMBDA e : e.collection = c)

\* C6: a list_games the store serves returns one entry per successful
\* create_game, in order, each with the id of its create, its submitted
\* fields, and the defaults for the omitted ones (visibility "public",
\* max_players 10, host_user_id and description None); so after the one
\* create of {title, sport} it returns exactly that one entry.
C6_GameRoundTrip ==
  (resp.op = "list_games" /\ ~StoreFailed) =>
     LET games == CreatedIn("game")
     IN  /\ Len(resp.body) = Len(games)
         /\ \A i \in DOMAIN games :
               LET raw == games[i].raw
                   g   == resp.body[i]
               IN  /\ g.id = games[i].id
                   /\ \A k \in DOMAIN raw : g[k] = raw[k]
                   /\ "visibility" \notin DOMAIN raw => g.visibility = "public"
                   /\ "max_players" \notin DOMAIN raw => g.max_players = 10
                   /\ "host_user_id" \notin DOMAIN raw => g.host_user_id = None
                   /\ "description" \notin DOMAIN raw => g.description = None

\* create_game({title: "3v3 Pickup", sport: "basketball"}) on an empty
\* collection, then list_games
C6_Witness ==
  /\ resp.op = "list_games" /\ ~StoreFailed
  /\ Len(CreatedIn("game")) = 1
  /\ CreatedIn("game")[1].raw = [title |-> "3v3 Pickup", sport |-> "basketball"]
  /\ Len(resp.body) = 1
  /\ resp.body[1].sport = "basketball"
  /\ resp.body[1].visibility = "public"
  /\ resp.body[1].max_players = 10

BookingStatuses == {"upcoming", "completed", "cancelled"}

\* C7: every stored booking carries a status, "upcoming" when the request
\* gave none, and every record list_bookings returns has a status among
\* upcoming, completed, cancelled.
C7_BookingHasStatus ==
  /\ \A i \in DOMAIN store.colls["booking"] :
        LET doc == store.colls["booking"][i]
        IN  "status" \in DOMAIN doc /\ doc["status"] \in BookingStatuses
  /\ (resp.op = "list_bookings" /\ resp.status = 200) =>
        \A j \in DOMAIN resp.body :
          "status" \in DOMAIN resp.body[j] /\ resp.body[j]["status"] \in BookingStatuses

\* C8: the probe always answers 200 with a body.  Without a connection the
\* database field says not available and collections is empty; with one,
\* collections is the first 10 (or fewer) names the database lists; an
\* exception while probing is reported in the database field, its text cut
\* to 50 characters.
C8_ProbeNeverFails ==
  resp.op = "test_database" =>
     LET r == resp.req
         b == resp.body
         names == r.list_result.names
         Cut(text) == IF Len(text) = 0 THEN text ELSE SubSeq(text, 1, Min(Len(text), 50))
     IN  /\ resp.status = 200
         /\ b.backend = "[ok] Running"
         /\ db_is_None(db) =>
               b.database = "[x] Not Available" /\ b.collections = << >>
         /\ (~db_is_None(db) /\ r.name_fault = NoFault /\ r.list_result.ok) =>
               /\ Len(b.collections) = Min(Len(names), 10)
               /\ \A i \in DOMAIN b.collections : b.collections[i] = names[i]
               /\ b.database = "[ok] Connected & Working"
         /\ (~db_is_None(db) /\ r.name_fault = NoFault /\ ~r.list_result.ok) =>
               /\ b.database = "[!] Connected but Error: " \o Cut(r.list_result.error)
               /\ Len(b.database) <= Len("[!] Connected but Error: ") + 50
               /\ b.collections = << >>
         /\ (~db_is_None(db) /\ r.name_fault # NoFault) =>
               /\ b.database = "[x] Error: " \o Cut(r.name_fault)
               /\ Len(b.database) <= Len("[x] Error: ") + 50

\* listing the collections raises a 64-character message: 50 are reported
C8_Witness ==
  /\ resp.op = "test_database" /\ ~db_is_None(db)
  /\ resp.req.name_fault = NoFault /\ ~resp.req.list_result.ok
  /\ Len(resp.req.list_result.error) = 64
  /\ Len(resp.body.database) = Len("[!] Connected but Error: ") + 50

\* more names than the limit: the first 10 are reported
C8_WitnessNames ==
  /\ resp.op = "test_database" /\ ~db_is_None(db)
  /\ resp.req.name_fault = NoFault /\ resp.req.list_result.ok
  /\ Len(resp.req.list_result.names) > 10
  /\ Len(resp.body.collections) = 10

\* the venues of the catalog, in catalog order, that a type filter and a
\* tag filter keep, where Given says which filter values count as given
VenuesKept(vtype, tag, Given(_)) ==
  SelectSeq(SAMPLE_VENUES,
            LAMBDA v : /\ Given(vtype) => v.type = vtype
                       /\ Given(tag) => \E i \in DOMAIN v.tags : v.tags[i] = tag)

NotOmitted(x) == x # None

NonEmpty(x) == x # None /\ x # ""

\* C9 as stated: a filter is given whenever the request carries it
C9_VenueFilters_AsStated ==
  resp.op = "get_venues" =>
     resp.body = VenuesKept(resp.req.vtype, resp.req.tag, NotOmitted)

\* C9, amended: get_venues returns exactly the venues of the catalog, in
\* catalog order, whose type equals the type filter and whose tags contain
\* the tag filter, for each filter that is a non-empty string; a filter
\* that is omitted or empty is ignored.
C9_VenueFilters ==
  resp.op = "get_venues" =>
     resp.body = VenuesKept(resp.req.vtype, resp.req.tag, NonEmpty)

\* an empty type filter with a tag filter: the tag alone selects
C9_Witness ==
  /\ resp.op = "get_venues" /\ resp.req.vtype = "" /\ resp.req.tag = "basketball"
  /\ Len(resp.body) = 2

\* C10: recommend_recovery returns at most 3 items, all of type recovery:
\* the k-th item is the k-th recovery venue of the catalog; the response
\* is this in every state, whatever has been persisted.
C10_RecoveryPicks ==
  resp.op = "recommend_recovery" =>
     LET items == resp.body.items
         rec   == {i \in DOMAIN SAMPLE_VENUES : SAMPLE_VENUES[i].type = "recovery"}
     IN  /\ resp.status = 200
         /\ resp.body.title = "Top picks to recover"
         /\ Len(items) = Min(3, Cardinality(rec))
         /\ \A k \in DOMAIN items :
               /\ items[k].type = "recovery"
               /\ \E i \in rec : /\ items[k] = SAMPLE_VENUES[i]
                                  /\ Cardinality({j \in rec : j < i}) = k - 1

\* asked after documents were persisted
C10_Witness ==
  /\ resp.op = "recommend_recovery" /\ store.nextId > 2
  /\ Len(resp.body.items) = 2
  /\ resp.body.items[1].id = "v4" /\ resp.body.items[2].id = "v5"

=============================================================================
